---- MODULE Spec2Model ----
(***************************************************************************)
(* The deferred-initialisation wrapper SyncAgentWrapper (src/repro/agent.py,*)
(* src/repro_pickle_wrapper.py) together with the cloudpickle round trip    *)
(* the deployment scripts put it through (src/test_re_deploy/test_pickle2.py*)
(* src/test_pickle_repro.py, src/test_mcp_factory.py).                      *)
(*                                                                         *)
(* A wrapper object ("proxy") holds _lazy_agent, which is None until        *)
(* set_up() stores the product of the module-level factory create_agent().  *)
(* query() calls set_up() when _lazy_agent is None.  Neither method takes   *)
(* a lock, so the steps of two calls on the same wrapper may interleave.    *)
(*                                                                         *)
(* Beside it: the pickling of factory functions (src/test_mcp_factory.py), *)
(* the deployment script src/examples/gcp_health_agent/deploy_re.py (.env   *)
(* parsing, AdkApp wrapping, ReasoningEngine.create), and the agent's tools *)
(* (tools.py) with their credential lookup (auth_utils.py).                 *)
(***************************************************************************)
EXTENDS Naturals, FiniteSets, Sequences

\* ------------------------------------------------------------------ bounds
MaxProxies == 2
MaxObj == 3
MaxFails == 1
NThreads == 2
MaxLines == 3
MaxNameLen == 2

Proxies == 1..MaxProxies
Threads == 1..NThreads

\* ------------------------------------------------------------ value spaces
\* Python's None, in the shape of an object reference so that it compares
\* with one.
None ==
    [id |-> 0, via |-> "none", kind |-> "none"]

\* Which create_agent the wrapper's module binds: "plain" builds an Agent
\* that holds only a model string (src/repro/agent.py), "handle" builds a
\* resource that opens a file (src/test_mcp_factory.py, test_re_deploy).
FactoryKinds ==
    {"plain", "handle"}

\* The exception open() raises inside the "handle" factory when the file is
\* missing.
FactoryError ==
    "FileNotFoundError"

\* The exception cloudpickle.dumps raises on an object holding a live handle.
PickleError ==
    "TypeError"

VARIABLES
    alive,       \* alive[p]: wrapper object p exists
    host,        \* host[p]: "local" (built by __init__) or "remote" (built by loads)
    factoryOf,   \* factoryOf[p]: the create_agent its module binds
    lazy_agent,  \* lazy_agent[p]: self._lazy_agent
    lazy_tools,  \* lazy_tools[p]: self._lazy_tools (length of the list)
    origin,      \* origin[p]: "init", "loadsAbsent", "loadsPresent" (history)
    calls,       \* calls[p]: create_agent invocations made for p (history)
    fails,       \* fails[p]: how many of them raised (history)
    installs,    \* installs[p]: stores into self._lazy_agent by set_up (history)
    winner,      \* winner[p]: id of the first resource set_up stored, 0 if none
    observed,    \* observed[p]: ids of self._lazy_agent seen by returning query() calls
    lastErr,     \* lastErr[p]: exception the latest finished call on p gave its caller
    pc,          \* pc[t]: where thread t is inside query()/set_up()
    target,      \* target[t]: the wrapper thread t is calling, 0 outside a call
    tmp,         \* tmp[t]: value create_agent() returned, not yet stored
    viaQuery,    \* viaQuery[t]: set_up() was entered from query()
    invoked,     \* invoked[t]: create_agent invocations in t's current call
    blobs,       \* pickles produced by cloudpickle.dumps
    lastDump,    \* outcome of the latest cloudpickle.dumps
    nextId,      \* identity of the next object allocated
    ordinal,     \* ordinal[i]: object i is the ordinal[i]-th one create_agent()
                 \* returned in its process, 0 if it did not come from there (history)
    fnBlobs,     \* factory functions cloudpickle.dumps has written
    fnRestored,  \* factory functions cloudpickle.loads has rebuilt
    fnProducts,  \* objects made by calling a factory function directly
    fileExists,  \* the file the "handle" factory opens is present
    lastFn,      \* outcome of the latest operation on a factory function
    envExists,   \* a .env file is in the directory deploy_re.py runs in
    envFile,     \* its lines, each a sequence of characters
    environ,     \* os.environ, as a set of <<name, value>> pairs
    env_vars,    \* deploy_re.py: env_vars
    parseErr,    \* the `except Exception` of the .env block was entered
    pcD,         \* where the deploy_re.py script is
    agentModule, \* the module `import agent` found
    app_obj,     \* deploy_re.py: app_obj, <<>> before the import
    created,     \* arguments of ReasoningEngine.create, <<>> before the call
    authId,      \* the environment variable AUTH_ID: <<>> unset, <<v>> set to v
    projEnv,     \* the environment variable GOOGLE_CLOUD_PROJECT is set
    ctxState,    \* tool_context.state, as a set of <<key, value>> pairs
    lastCall     \* the latest tool call: its inputs and what it did and returned

proxyVars ==
    <<alive, host, factoryOf, lazy_agent, lazy_tools, origin>>

historyVars ==
    <<calls, fails, installs, winner, observed, lastErr>>

threadVars ==
    <<pc, target, tmp, viaQuery, invoked>>

wrapperVars ==
    <<proxyVars, historyVars, threadVars, blobs, lastDump, nextId, ordinal>>

factoryVars ==
    <<fnBlobs, fnRestored, fnProducts, fileExists, lastFn>>

\* Everything the wrapper's own methods and its pickling never touch.
deployVars ==
    <<envExists, envFile, environ, env_vars, parseErr, pcD, agentModule, app_obj, created>>

toolVars ==
    <<authId, projEnv, ctxState, lastCall>>

extVars ==
    <<factoryVars, deployVars, toolVars>>

\* What the factory-function script leaves alone, and what deploy_re.py does.
notFactory ==
    <<wrapperVars, deployVars, toolVars>>

notDeploy ==
    <<wrapperVars, factoryVars, toolVars>>

notTools ==
    <<wrapperVars, factoryVars, deployVars>>

vars ==
    <<wrapperVars, extVars>>

\* ------------------------------------------------------------------ helpers
\* The lowest unused wrapper slot, 0 when all are in use.
FreeSlot ==
    IF \E p \in Proxies : ~alive[p]
    THEN CHOOSE p \in Proxies : ~alive[p] /\ \A q \in Proxies : q < p => alive[q]
    ELSE 0

\* The thread a single-threaded script runs in.
MainThread ==
    CHOOSE t \in Threads : \A u \in Threads : t <= u

AllIdle ==
    \A t \in Threads : pc[t] = "idle"

\* Threads that have entered set_up() and not yet called create_agent().
Pending ==
    Cardinality({t \in Threads : pc[t] = "setup"})

\* An object identity is left for one more allocation.
HasBudget ==
    nextId + Pending <= MaxObj

\* create_agent(): a fresh object on every call.
CreateAgent(fk, id) ==
    [id |-> id, via |-> "factory", kind |-> fk]

\* The outcomes of one create_agent() call: TRUE returns, FALSE raises.
\* Agent() of src/repro/agent.py cannot raise; the file-opening factory
\* raises when the file is missing.
FactoryOutcomes(p) ==
    IF factoryOf[p] = "handle" /\ fails[p] < MaxFails
    THEN {TRUE, FALSE}
    ELSE {TRUE}

\* The objects create_agent() has returned so far to the wrappers of S: its
\* calls without those that raised.
RECURSIVE SumReturned(_)
SumReturned(S) ==
    IF S = {}
    THEN 0
    ELSE LET p == CHOOSE x \in S : TRUE
         IN (calls[p] - fails[p]) + SumReturned(S \ {p})

\* One count for all processes and modules.
OrdinalShared(p) ==
    SumReturned({q \in Proxies : alive[q]}) + 1

\* create_agent is a function of the wrapper's module, one per process that
\* imports the module and shared by every wrapper of that process: the
\* position the object returned next for wrapper p has among the objects
\* its process's create_agent returns.
Ordinal(p) ==
    SumReturned({q \in Proxies :
                    alive[q] /\ host[q] = host[p] /\ factoryOf[q] = factoryOf[p]}) + 1

\* What the caller of set_up()/query() receives when create_agent() raises
\* `cause`: neither method has a try block, so the exception itself.
RaisedWrapped(cause) ==
    "ResourceConstructionError"

Raised(cause) ==
    cause

\* --------------------------------------------------------------------- Init
\* The interpreter before any module is imported: no wrapper exists, no
\* thread is inside a call, nothing has been pickled.
Init ==
    /\ alive = [p \in Proxies |-> FALSE]
    /\ host = [p \in Proxies |-> "local"]
    /\ factoryOf = [p \in Proxies |-> "plain"]
    /\ lazy_agent = [p \in Proxies |-> None]
    /\ lazy_tools = [p \in Proxies |-> 0]
    /\ origin = [p \in Proxies |-> "init"]
    /\ calls = [p \in Proxies |-> 0]
    /\ fails = [p \in Proxies |-> 0]
    /\ installs = [p \in Proxies |-> 0]
    /\ winner = [p \in Proxies |-> 0]
    /\ observed = [p \in Proxies |-> {}]
    /\ lastErr = [p \in Proxies |-> "none"]
    /\ pc = [t \in Threads |-> "idle"]
    /\ target = [t \in Threads |-> 0]
    /\ tmp = [t \in Threads |-> None]
    /\ viaQuery = [t \in Threads |-> FALSE]
    /\ invoked = [t \in Threads |-> 0]
    /\ blobs = {}
    /\ lastDump = [proxy |-> 0, result |-> "none"]
    /\ nextId = 1
    /\ ordinal = [i \in 1..MaxObj |-> 0]
    /\ fnBlobs = {}
    /\ fnRestored = {}
    /\ fnProducts = {}
    /\ fileExists = FALSE
    /\ lastFn = [op |-> "none", fn |-> "none", result |-> "none"]
    /\ envExists = FALSE
    /\ envFile = <<>>
    /\ environ = {}
    /\ env_vars = <<>>
    /\ parseErr = FALSE
    /\ pcD = "edit"
    /\ agentModule = <<>>
    /\ app_obj = <<>>
    /\ created = <<>>
    /\ authId = <<>>
    /\ projEnv = FALSE
    /\ ctxState = {}
    /\ lastCall = [tool |-> "none", arg |-> <<>>, proj |-> FALSE, creds |-> <<>>,
                   out |-> [credCheck |-> FALSE, clients |-> 0, requests |-> 0,
                            exc |-> FALSE, raised |-> FALSE, text |-> <<>>]]

\* ------------------------------------------------------------ construction
\* A constructor that builds the agent eagerly (the import-time singleton
\* the lazy wrapper replaced).
ConstructEager(fk) ==
    /\ FreeSlot # 0
    /\ nextId <= MaxObj
    /\ LET p == FreeSlot IN
        /\ alive' = [alive EXCEPT ![p] = TRUE]
        /\ host' = [host EXCEPT ![p] = "local"]
        /\ factoryOf' = [factoryOf EXCEPT ![p] = fk]
        /\ lazy_agent' = [lazy_agent EXCEPT ![p] = CreateAgent(fk, nextId)]
        /\ lazy_tools' = [lazy_tools EXCEPT ![p] = 0]
        /\ origin' = [origin EXCEPT ![p] = "init"]
        /\ calls' = [calls EXCEPT ![p] = 1]
        /\ installs' = [installs EXCEPT ![p] = 1]
        /\ winner' = [winner EXCEPT ![p] = nextId]
    /\ nextId' = nextId + 1
    /\ UNCHANGED <<fails, observed, lastErr, threadVars, blobs, lastDump>>
    /\ UNCHANGED <<ordinal, extVars>>

\* app = SyncAgentWrapper(): __init__ sets _lazy_agent = None and
\* _lazy_tools = [] and calls nothing.
Construct(fk) ==
    /\ FreeSlot # 0
    /\ LET p == FreeSlot IN
        /\ alive' = [alive EXCEPT ![p] = TRUE]
        /\ host' = [host EXCEPT ![p] = "local"]
        /\ factoryOf' = [factoryOf EXCEPT ![p] = fk]
        /\ lazy_agent' = [lazy_agent EXCEPT ![p] = None]
        /\ lazy_tools' = [lazy_tools EXCEPT ![p] = 0]
        /\ origin' = [origin EXCEPT ![p] = "init"]
    /\ UNCHANGED <<historyVars, threadVars, blobs, lastDump, nextId>>
    /\ UNCHANGED <<ordinal, extVars>>

\* ------------------------------------------------------- query() / set_up()
\* Thread t leaves its call, by return or by an exception nothing catches:
\* the frame and its locals are gone.
Return(t) ==
    /\ pc' = [pc EXCEPT ![t] = "idle"]
    /\ target' = [target EXCEPT ![t] = 0]
    /\ tmp' = [tmp EXCEPT ![t] = None]
    /\ viaQuery' = [viaQuery EXCEPT ![t] = FALSE]
    /\ invoked' = [invoked EXCEPT ![t] = 0]

\* A guard that is always true: query() would call set_up() on every call.
QueryGuardAlways(p) ==
    TRUE

\* query(): `if self._lazy_agent is None`.
QueryGuard(p) ==
    lazy_agent[p] = None

\* Thread t enters query() on wrapper p and evaluates the guard.
QueryCheck(t, p) ==
    /\ pc[t] = "idle"
    /\ alive[p]
    /\ QueryGuard(p) => HasBudget
    /\ pc' = [pc EXCEPT ![t] = IF QueryGuard(p) THEN "setup" ELSE "ret"]
    /\ target' = [target EXCEPT ![t] = p]
    /\ viaQuery' = [viaQuery EXCEPT ![t] = TRUE]
    /\ invoked' = [invoked EXCEPT ![t] = 0]
    /\ UNCHANGED <<proxyVars, historyVars, tmp, blobs, lastDump, nextId>>
    /\ UNCHANGED <<ordinal, extVars>>

\* Thread t calls set_up() on wrapper p directly, as the hosting runtime
\* does on cold start (test_pickle2.py: restored_app.set_up()).
SetUpCall(t, p) ==
    /\ pc[t] = "idle"
    /\ alive[p]
    /\ HasBudget
    /\ pc' = [pc EXCEPT ![t] = "setup"]
    /\ target' = [target EXCEPT ![t] = p]
    /\ viaQuery' = [viaQuery EXCEPT ![t] = FALSE]
    /\ invoked' = [invoked EXCEPT ![t] = 0]
    /\ UNCHANGED <<proxyVars, historyVars, tmp, blobs, lastDump, nextId>>
    /\ UNCHANGED <<ordinal, extVars>>

\* A set_up() that stores a placeholder when create_agent() raises.
SetUpCreatePoison(t) ==
    /\ pc[t] = "setup"
    /\ LET p == target[t] IN
        \E ok \in FactoryOutcomes(p) :
            /\ calls' = [calls EXCEPT ![p] = @ + 1]
            /\ IF ok
               THEN /\ tmp' = [tmp EXCEPT ![t] = CreateAgent(factoryOf[p], nextId)]
                    /\ invoked' = [invoked EXCEPT ![t] = @ + 1]
                    /\ nextId' = nextId + 1
                    /\ ordinal' = [ordinal EXCEPT ![nextId] = Ordinal(p)]
                    /\ pc' = [pc EXCEPT ![t] = "store"]
                    /\ UNCHANGED <<target, viaQuery>>
                    /\ UNCHANGED <<fails, lastErr, lazy_agent>>
               ELSE /\ fails' = [fails EXCEPT ![p] = @ + 1]
                    /\ lastErr' = [lastErr EXCEPT ![p] = Raised(FactoryError)]
                    /\ lazy_agent' = [lazy_agent EXCEPT ![p] =
                                        [id |-> 0, via |-> "failed", kind |-> factoryOf[p]]]
                    /\ Return(t)
                    /\ UNCHANGED <<nextId, ordinal>>
    /\ UNCHANGED <<alive, host, factoryOf, lazy_tools, origin>>
    /\ UNCHANGED <<installs, winner, observed, blobs, lastDump>>
    /\ UNCHANGED extVars

\* set_up(): the right-hand side of `self._lazy_agent = create_agent()`.
\* The factory either returns a fresh object, held by the thread until the
\* store, or raises: the exception leaves set_up() and query(), neither of
\* which catches it, and the store never happens.
SetUpCreate(t) ==
    /\ pc[t] = "setup"
    /\ LET p == target[t] IN
        \E ok \in FactoryOutcomes(p) :
            /\ calls' = [calls EXCEPT ![p] = @ + 1]
            /\ IF ok
               THEN /\ tmp' = [tmp EXCEPT ![t] = CreateAgent(factoryOf[p], nextId)]
                    /\ invoked' = [invoked EXCEPT ![t] = @ + 1]
                    /\ nextId' = nextId + 1
                    /\ ordinal' = [ordinal EXCEPT ![nextId] = Ordinal(p)]
                    /\ pc' = [pc EXCEPT ![t] = "store"]
                    /\ UNCHANGED <<target, viaQuery>>
                    /\ UNCHANGED <<fails, lastErr>>
               ELSE /\ fails' = [fails EXCEPT ![p] = @ + 1]
                    /\ lastErr' = [lastErr EXCEPT ![p] = Raised(FactoryError)]
                    /\ Return(t)
                    /\ UNCHANGED <<nextId, ordinal>>
    /\ UNCHANGED <<proxyVars, installs, winner, observed>>
    /\ UNCHANGED <<blobs, lastDump>>
    /\ UNCHANGED extVars

\* A set_up() that builds the agent and forgets to keep it.
SetUpStoreNoCache(t) ==
    /\ pc[t] = "store"
    /\ LET p == target[t] IN
        /\ lastErr' = IF viaQuery[t] THEN lastErr ELSE [lastErr EXCEPT ![p] = "none"]
    /\ IF viaQuery[t]
       THEN /\ pc' = [pc EXCEPT ![t] = "ret"]
            /\ tmp' = [tmp EXCEPT ![t] = None]
            /\ UNCHANGED <<target, viaQuery, invoked>>
       ELSE Return(t)
    /\ UNCHANGED <<proxyVars, calls, fails, installs, winner, observed>>
    /\ UNCHANGED <<blobs, lastDump, nextId>>
    /\ UNCHANGED <<ordinal, extVars>>

\* set_up(): the store of `self._lazy_agent = create_agent()`, whatever the
\* attribute held before, and the return to the caller.
SetUpStore(t) ==
    /\ pc[t] = "store"
    /\ LET p == target[t] IN
        /\ lazy_agent' = [lazy_agent EXCEPT ![p] = tmp[t]]
        /\ installs' = [installs EXCEPT ![p] = @ + 1]
        /\ winner' = [winner EXCEPT ![p] = IF @ = 0 THEN tmp[t].id ELSE @]
        /\ lastErr' = IF viaQuery[t] THEN lastErr ELSE [lastErr EXCEPT ![p] = "none"]
    /\ IF viaQuery[t]
       THEN /\ pc' = [pc EXCEPT ![t] = "ret"]
            /\ tmp' = [tmp EXCEPT ![t] = None]
            /\ UNCHANGED <<target, viaQuery, invoked>>
       ELSE Return(t)
    /\ UNCHANGED <<alive, host, factoryOf, lazy_tools, origin>>
    /\ UNCHANGED <<calls, fails, observed>>
    /\ UNCHANGED <<blobs, lastDump, nextId>>
    /\ UNCHANGED <<ordinal, extVars>>

\* query(): `return "response"`.  The agent this call works with is the one
\* self._lazy_agent refers to now.
QueryReturn(t) ==
    /\ pc[t] = "ret"
    /\ LET p == target[t] IN
        /\ observed' = [observed EXCEPT ![p] = @ \cup {lazy_agent[p].id}]
        /\ lastErr' = [lastErr EXCEPT ![p] = "none"]
    /\ Return(t)
    /\ UNCHANGED <<proxyVars, calls, fails, installs, winner>>
    /\ UNCHANGED <<blobs, lastDump, nextId>>
    /\ UNCHANGED <<ordinal, extVars>>

\* ---------------------------------------------------------------- transport
\* cloudpickle can write the object: None and an Agent holding only a model
\* string can be written, an object holding an open file cannot.
Picklable(agent) ==
    agent.kind # "handle"

\* The pickle of wrapper p: its class (by reference, and with it the module
\* whose create_agent it calls) and its __dict__ by value.  An agent in it is
\* written by content; its identity is not part of the pickle.
Encode(p) ==
    [cls |-> factoryOf[p],
     lazy_agent |-> IF lazy_agent[p] = None THEN "None" ELSE lazy_agent[p].kind,
     lazy_tools |-> lazy_tools[p]]

\* A loads() that builds the agent while restoring, whatever was pickled.
DecodeEager(b, id) ==
    [id |-> id, via |-> "loads", kind |-> b.cls]

\* The _lazy_agent of the object loads() builds from pickle b: None, or a new
\* object with the pickled content.
Decode(b, id) ==
    IF b.lazy_agent = "None"
    THEN None
    ELSE [id |-> id, via |-> "loads", kind |-> b.lazy_agent]

\* A dumps() that leaves out a resource it cannot write and clears it.
DumpsDropping(p) ==
    /\ alive[p]
    /\ IF Picklable(lazy_agent[p])
       THEN /\ blobs' = blobs \cup {Encode(p)}
            /\ lastDump' = [proxy |-> p, result |-> "ok"]
            /\ UNCHANGED lazy_agent
       ELSE /\ blobs' = blobs \cup {[Encode(p) EXCEPT !.lazy_agent = "None"]}
            /\ lastDump' = [proxy |-> p, result |-> PickleError]
            /\ lazy_agent' = [lazy_agent EXCEPT ![p] = None]
    /\ UNCHANGED <<alive, host, factoryOf, lazy_tools, origin>>
    /\ UNCHANGED <<historyVars, threadVars, nextId>>
    /\ UNCHANGED <<ordinal, extVars>>

\* cloudpickle.dumps(app): returns the pickle, or raises when the wrapper
\* holds an object that cannot be written.  It reads the wrapper and
\* changes nothing.
Dumps(p) ==
    /\ alive[p]
    /\ IF Picklable(lazy_agent[p])
       THEN /\ blobs' = blobs \cup {Encode(p)}
            /\ lastDump' = [proxy |-> p, result |-> "ok"]
       ELSE /\ blobs' = blobs
            /\ lastDump' = [proxy |-> p, result |-> PickleError]
    /\ UNCHANGED <<proxyVars, historyVars, threadVars, nextId>>
    /\ UNCHANGED <<ordinal, extVars>>

\* cloudpickle.loads(dumped): a new wrapper object on the receiving side,
\* built without calling __init__, with the pickled __dict__.
Loads(b) ==
    /\ b \in blobs
    /\ FreeSlot # 0
    /\ b.lazy_agent # "None" => HasBudget
    /\ LET p == FreeSlot IN
        /\ alive' = [alive EXCEPT ![p] = TRUE]
        /\ host' = [host EXCEPT ![p] = "remote"]
        /\ factoryOf' = [factoryOf EXCEPT ![p] = b.cls]
        /\ lazy_agent' = [lazy_agent EXCEPT ![p] = Decode(b, nextId)]
        /\ lazy_tools' = [lazy_tools EXCEPT ![p] = b.lazy_tools]
        /\ origin' = [origin EXCEPT ![p] =
                        IF b.lazy_agent = "None" THEN "loadsAbsent" ELSE "loadsPresent"]
    /\ nextId' = IF b.lazy_agent = "None" THEN nextId ELSE nextId + 1
    /\ UNCHANGED <<historyVars, threadVars, blobs, lastDump>>
    /\ UNCHANGED <<ordinal, extVars>>

\* ------------------------------------------------------- factory functions
\* Calling factory function fk raises: the "handle" factory opens a file and
\* open() raises when the file is missing (test_mcp_factory.py: "This will
\* fail if file doesn't exist").
FactoryRaises(fk) ==
    fk = "handle" /\ ~fileExists

\* One call of factory function fk, `via` telling which function object was
\* called: a new object, or the exception of open().
Invoke(fk, via) ==
    /\ Cardinality(fnProducts) < MaxObj
    /\ IF FactoryRaises(fk)
       THEN /\ lastFn' = [op |-> via, fn |-> fk, result |-> FactoryError]
            /\ UNCHANGED fnProducts
       ELSE /\ lastFn' = [op |-> via, fn |-> fk, result |-> "ok"]
            /\ fnProducts' = fnProducts \cup
                    {[id |-> Cardinality(fnProducts) + 1, via |-> via, kind |-> fk]}
    /\ UNCHANGED <<fnBlobs, fnRestored, fileExists>>
    /\ UNCHANGED notFactory

\* The agent.py file is written (the mock of the test) or removed.
SetFile(b) ==
    /\ fileExists # b
    /\ fileExists' = b
    /\ UNCHANGED <<fnBlobs, fnRestored, fnProducts, lastFn>>
    /\ UNCHANGED notFactory

\* get_bq_mcp_toolset() / create_agent() called where it was defined.
CallFactory(fk) ==
    Invoke(fk, "call")

\* A dumps() that pickles what the function returns instead of the function.
DumpsFactoryByCalling(fk) ==
    /\ IF FactoryRaises(fk)
       THEN /\ lastFn' = [op |-> "dumps", fn |-> fk, result |-> FactoryError]
            /\ UNCHANGED fnBlobs
       ELSE IF fk = "handle"
            THEN /\ lastFn' = [op |-> "dumps", fn |-> fk, result |-> PickleError]
                 /\ UNCHANGED fnBlobs
            ELSE /\ lastFn' = [op |-> "dumps", fn |-> fk, result |-> "ok"]
                 /\ fnBlobs' = fnBlobs \cup {fk}
    /\ UNCHANGED <<fnRestored, fnProducts, fileExists>>
    /\ UNCHANGED notFactory

\* cloudpickle.dumps(create_agent): the function's code is written; the
\* function is not called, so nothing it would open is touched.
DumpsFactory(fk) ==
    /\ fnBlobs' = fnBlobs \cup {fk}
    /\ lastFn' = [op |-> "dumps", fn |-> fk, result |-> "ok"]
    /\ UNCHANGED <<fnRestored, fnProducts, fileExists>>
    /\ UNCHANGED notFactory

\* restored_func = cloudpickle.loads(dumped_func).
LoadsFactory(fk) ==
    /\ fk \in fnBlobs
    /\ fnRestored' = fnRestored \cup {fk}
    /\ lastFn' = [op |-> "loads", fn |-> fk, result |-> "ok"]
    /\ UNCHANGED <<fnBlobs, fnProducts, fileExists>>
    /\ UNCHANGED notFactory

\* agent = restored_func().
CallRestored(fk) ==
    /\ fk \in fnRestored
    /\ Invoke(fk, "callRestored")

\* cloudpickle.dumps(tool_global): pickling an object a factory returned.
DumpsProduct(r) ==
    /\ r \in fnProducts
    /\ lastFn' = [op |-> "dumpsProduct", fn |-> r.kind,
                  result |-> IF Picklable(r) THEN "ok" ELSE PickleError]
    /\ UNCHANGED <<fnBlobs, fnRestored, fnProducts, fileExists>>
    /\ UNCHANGED notFactory

\* ------------------------------------------------------------ deploy_re.py
\* Characters of a .env line.  A reserved name or prefix is written as one
\* unit; NUL is the character chr(0).
DQ ==
    "\""

SQ ==
    "'"

NUL ==
    "NUL"

\* The lines a .env file is made of here: plain, repeated, padded, quoted,
\* comment, malformed, reserved, and one holding a NUL character.
EnvLines ==
    { <<"A", "=", "1">>,
      <<"A", "=", "2">>,
      <<" ", "B", " ", "=", " ", DQ, "1", DQ, " ">>,
      <<"B", "=", SQ, "2", SQ>>,
      <<"A", "=", DQ, DQ, "1", DQ, DQ>>,
      <<"A", "=", DQ, "1", SQ>>,
      <<"B", "=", DQ>>,
      <<"B", "=", "1", "=", "2">>,
      <<"#", "A", "=", "1">>,
      <<"A">>,
      <<"=", "1">>,
      <<>>,
      <<"PROJECT_ID", "=", "1">>,
      <<"GOOGLE_CLOUD_PROJECT", "=", "2">>,
      <<"OTEL_", "A", "=", "1">>,
      <<"GOOGLE_CLOUD_AGENT_ENGINE_", "B", "=", "1">>,
      <<"B", NUL, "=", "1">> }

\* str.strip(): leading and trailing whitespace removed.
RECURSIVE LStrip(_)
LStrip(s) ==
    IF s # <<>> /\ Head(s) = " " THEN LStrip(Tail(s)) ELSE s

RECURSIVE RStrip(_)
RStrip(s) ==
    IF s # <<>> /\ s[Len(s)] = " " THEN RStrip(SubSeq(s, 1, Len(s) - 1)) ELSE s

Strip(s) ==
    RStrip(LStrip(s))

\* `c in s`.
Contains(s, c) ==
    \E i \in 1..Len(s) : s[i] = c

\* s.startswith(c), s.endswith(c).
StartsWith(s, c) ==
    s # <<>> /\ s[1] = c

EndsWith(s, c) ==
    s # <<>> /\ s[Len(s)] = c

\* Position of the first "=" of s.
FirstEq(s) ==
    CHOOSE i \in 1..Len(s) : s[i] = "=" /\ \A j \in 1..(i - 1) : s[j] # "="

\* line.split("=", 1): the part before the first "=" and the part after it.
SplitKey(s) ==
    SubSeq(s, 1, FirstEq(s) - 1)

SplitValue(s) ==
    SubSeq(s, FirstEq(s) + 1, Len(s))

\* value[1:-1]: empty for a string of one or two characters.
Middle(s) ==
    SubSeq(s, 2, Len(s) - 1)

\* The quote handling of lines 58-61.
Dequote(v) ==
    IF StartsWith(v, DQ) /\ EndsWith(v, DQ)
    THEN Middle(v)
    ELSE IF StartsWith(v, SQ) /\ EndsWith(v, SQ)
         THEN Middle(v)
         ELSE v

\* os.environ[key] = value raises ValueError (embedded null byte).
PutenvRaises(key, value) ==
    Contains(key, NUL) \/ Contains(value, NUL)

\* os.environ[key] = value.
Setenv(env, key, value) ==
    {kv \in env : kv[1] # key} \cup {<<key, value>>}

\* The test of lines 65-67 negated: the key is kept out of env_vars.
Reserved(key) ==
    \/ key \in {<<"GOOGLE_CLOUD_PROJECT">>, <<"GOOGLE_CLOUD_LOCATION">>,
                <<"STAGING_BUCKET">>, <<"PROJECT_ID">>}
    \/ StartsWith(key, "OTEL_")
    \/ StartsWith(key, "GOOGLE_CLOUD_AGENT_ENGINE_")

\* One iteration of `for line in f`, from state st = [environ, env_vars,
\* failed]; failed is set when the assignment to os.environ raises.
ParseLine(raw, st) ==
    LET line == Strip(raw) IN
    IF line # <<>> /\ ~StartsWith(line, "#") /\ Contains(line, "=")
    THEN LET key == Strip(SplitKey(line))
             value == Dequote(Strip(SplitValue(line)))
         IN IF key = <<>>
            THEN st
            ELSE IF PutenvRaises(key, value)
                 THEN [st EXCEPT !.failed = TRUE]
                 ELSE [environ |-> Setenv(st.environ, key, value),
                       env_vars |-> IF Reserved(key)
                                    THEN st.env_vars
                                    ELSE Append(st.env_vars, key),
                       failed |-> FALSE]
    ELSE st

\* The loop over the lines from line i on, left at the first exception.
RECURSIVE ParseLines(_, _, _)
ParseLines(lines, i, st) ==
    IF i > Len(lines)
    THEN st
    ELSE LET r == ParseLine(lines[i], st)
         IN IF r.failed THEN r ELSE ParseLines(lines, i + 1, r)

\* The elements of sequence s.
Range(s) ==
    {s[i] : i \in 1..Len(s)}

\* list(set(xs)): the distinct elements of xs, in an order the set decides.
ListOfSet(xs) ==
    {t \in [1..Cardinality(Range(xs)) -> Range(xs)] : Range(t) = Range(xs)}

\* The line passes the tests of lines 51 and 55: after strip() it is not
\* empty, is no comment, holds an "=", and its key is not empty.
WellFormed(raw) ==
    LET line == Strip(raw) IN
    /\ line # <<>>
    /\ ~StartsWith(line, "#")
    /\ Contains(line, "=")
    /\ Strip(SplitKey(line)) # <<>>

\* Lines 52-53: the key of a line that passes them.
KeyOf(raw) ==
    Strip(SplitKey(Strip(raw)))

\* An empty .env file is created.
CreateEnvFile ==
    /\ pcD = "edit"
    /\ ~envExists
    /\ envExists' = TRUE
    /\ UNCHANGED <<envFile, environ, env_vars, parseErr, pcD, agentModule, app_obj, created>>
    /\ UNCHANGED notDeploy

\* A line is added to the .env file.
WriteLine(l) ==
    /\ pcD = "edit"
    /\ envExists
    /\ Len(envFile) < MaxLines
    /\ envFile' = Append(envFile, l)
    /\ UNCHANGED <<envExists, environ, env_vars, parseErr, pcD, agentModule, app_obj, created>>
    /\ UNCHANGED notDeploy

\* Objects an agent.py can bind to its names: an agent or wrapper of some
\* class with some of the attributes the script looks for, or an AdkApp
\* around one.
AttrNames ==
    {"agent", "_agent"}

LeafObjects ==
    {[cls |-> c, attrs |-> a, inner |-> <<>>] :
        c \in {"Agent", "SyncAgentWrapper"}, a \in SUBSET AttrNames}

\* reasoning_engines.AdkApp(agent=o, enable_tracing=False); which attributes
\* the library gives the instance is the library's matter.
AdkApp(o, a) ==
    [cls |-> "AdkApp", attrs |-> a, inner |-> <<o>>]

Objects ==
    LeafObjects \cup {AdkApp(o, a) : o \in LeafObjects, a \in SUBSET AttrNames}

\* The agent modules: which of the names app and root_agent they define, and
\* what these are bound to (root_agent is an Agent, app anything).
Modules ==
    {[names |-> n, app |-> o, root_agent |-> r] :
        n \in SUBSET {"app", "root_agent"},
        o \in Objects,
        r \in {x \in LeafObjects : x.cls = "Agent"}}

\* agent.py of examples/gcp_health_agent: root_agent, and app = AdkApp(...).
RepoModules ==
    {m \in Modules :
        /\ m.names = {"app", "root_agent"}
        /\ m.app.cls = "AdkApp"
        /\ m.app.inner = <<m.root_agent>>}

\* Lines 16-30: import agent; app_obj = agent.app if the module has the name
\* app, else agent.root_agent (an AttributeError when it has neither ends
\* the script).
ImportAgent(m) ==
    /\ pcD = "edit"
    /\ agentModule' = <<m>>
    /\ IF "app" \in m.names
       THEN /\ app_obj' = <<m.app>>
            /\ pcD' = "imported"
       ELSE IF "root_agent" \in m.names
            THEN /\ app_obj' = <<m.root_agent>>
                 /\ pcD' = "imported"
            ELSE /\ app_obj' = <<>>
                 /\ pcD' = "failed"
    /\ UNCHANGED <<envExists, envFile, environ, env_vars, parseErr, created>>
    /\ UNCHANGED notDeploy

\* Lines 43-76: the whole .env block.  Without a file env_vars stays [].
\* With one, the loop runs; when it ends normally line 72 replaces env_vars
\* by list(set(env_vars)); when an iteration raises, the except clause logs
\* a warning and env_vars is what the loop had appended so far.
ParseEnv ==
    /\ pcD = "imported"
    /\ IF ~envExists
       THEN /\ env_vars' = <<>>
            /\ UNCHANGED <<environ, parseErr>>
       ELSE LET r == ParseLines(envFile, 1,
                        [environ |-> environ, env_vars |-> <<>>, failed |-> FALSE])
            IN /\ environ' = r.environ
               /\ parseErr' = r.failed
               /\ IF r.failed
                  THEN env_vars' = r.env_vars
                  ELSE env_vars' \in ListOfSet(r.env_vars)
    /\ pcD' = "parsed"
    /\ UNCHANGED <<envExists, envFile, agentModule, app_obj, created>>
    /\ UNCHANGED notDeploy

\* A test that looks at the two attributes only.
IsAlreadyAdkAppByAttr(o) ==
    \/ "agent" \in o.attrs
    \/ "_agent" \in o.attrs

\* Lines 81-85: is_already_adk_app.
IsAlreadyAdkApp(o) ==
    \/ "agent" \in o.attrs
    \/ "_agent" \in o.attrs
    \/ o.cls = "AdkApp"

\* Lines 87-115: app_to_deploy is app_obj or a new AdkApp around it, and
\* ReasoningEngine.create receives it together with env_vars.
CreateEngine ==
    /\ pcD = "parsed"
    /\ \E a \in SUBSET AttrNames :
        LET o == app_obj[1]
            app_to_deploy == IF IsAlreadyAdkApp(o) THEN o ELSE AdkApp(o, a)
        IN created' = <<[app |-> app_to_deploy, env_vars |-> env_vars]>>
    /\ pcD' = "created"
    /\ UNCHANGED <<envExists, envFile, environ, env_vars, parseErr, agentModule, app_obj>>
    /\ UNCHANGED notDeploy

\* ------------------------------------------------- auth_utils.py, tools.py
\* Keys and values of tool_context.state: the default key, another AUTH_ID,
\* and a token or the empty string under them.
StateKeys ==
    {"temp_oauth", "my_auth"}

StateValues ==
    {"", "token"}

\* Values AUTH_ID is set to.
AuthIds ==
    {"", "my_auth"}

\* os.getenv("AUTH_ID", "temp_oauth").
AuthKey(auth) ==
    IF auth = <<>> THEN "temp_oauth" ELSE auth[1]

\* state.get(key): <<>> for None, <<v>> for the value v.
StateGet(state, key) ==
    IF \E kv \in state : kv[1] = key
    THEN <<(CHOOSE kv \in state : kv[1] = key)[2]>>
    ELSE <<>>

\* A lookup that takes the default key when AUTH_ID is the empty string.
get_user_credentials_or_default(state, auth) ==
    LET auth_id == IF AuthKey(auth) = "" THEN "temp_oauth" ELSE AuthKey(auth)
        access_token == StateGet(state, auth_id)
    IN IF access_token # <<>> /\ access_token[1] # "" THEN access_token ELSE <<>>

\* get_user_credentials(tool_context): <<>> for None, <<t>> for
\* Credentials(token=t).  It reads os.environ and the state and writes
\* neither.
get_user_credentials(state, auth) ==
    LET auth_id == AuthKey(auth) IN
    IF auth_id # "" /\ state # {}
    THEN LET access_token == StateGet(state, auth_id)
         IN IF access_token # <<>> /\ access_token[1] # ""
            THEN access_token
            ELSE <<>>
    ELSE <<>>

\* What one tool call did and returned: whether it called
\* get_user_credentials, how many API clients it constructed, how many
\* requests it sent, whether an exception was raised inside it, whether one
\* left it, and the returned string as a sequence of pieces.
Done(c, r, exc, text) ==
    [credCheck |-> TRUE, clients |-> c, requests |-> r,
     exc |-> exc, raised |-> FALSE, text |-> text]

\* An except clause that lets the exception go on.
Reraised(c, r, prefix, e) ==
    [credCheck |-> TRUE, clients |-> c, requests |-> r,
     exc |-> TRUE, raised |-> TRUE, text |-> <<>>]

\* `except Exception as e: return f"<prefix>{e}"`.
Caught(c, r, prefix, e) ==
    Done(c, r, TRUE, <<prefix, e>>)

\* A credential test that never stops the tool.
NoCredentialNever(creds) ==
    FALSE

\* `if not credential`.
NoCredential(creds) ==
    creds = <<>>

AuthRequired ==
    <<"Error: Authentication required.">>

\* What constructing a client and sending one request can come to: the
\* constructor raises, the request raises (plainly, or with a
\* PermissionDenied text), or it yields no items or some.
ApiOutcomes ==
    {"ctor_raise", "raise", "PermissionDenied", "empty", "items"}

\* What one request inside an inner try block can come to.
RequestOutcomes ==
    {"raise", "empty", "items"}

\* What resolve_project_id's client and search can come to; "ok" yields a
\* page of projects.
SearchOutcomes ==
    {"ctor_raise", "raise", "ok"}

Raises ==
    {"ctor_raise", "raise", "PermissionDenied"}

\* The body shared by the listing tools after the credential test: a client,
\* one request, and the items formatted.
Listing(api, prefix, emptyText, itemsText) ==
    CASE api = "ctor_raise" -> Caught(0, 0, prefix, api)
      [] api \in {"raise", "PermissionDenied"} -> Caught(1, 1, prefix, api)
      [] api = "empty" -> Done(1, 1, FALSE, <<emptyText>>)
      [] OTHER -> Done(1, 1, FALSE, <<itemsText>>)

\* read_recent_logs: no credential test; the client is built with whatever
\* get_user_credentials returned, None included, and
\* os.environ["GOOGLE_CLOUD_PROJECT"] raises KeyError when the variable is
\* unset.
read_recent_logs(creds, proj, api) ==
    IF ~proj
    THEN Caught(0, 0, "Error reading logs: ", "KeyError")
    ELSE Listing(api, "Error reading logs: ",
                 "No logs found matching the filter.", "logs")

check_health(creds, api) ==
    IF NoCredential(creds)
    THEN Done(0, 0, FALSE, AuthRequired)
    ELSE Listing(api, "Error checking health: ",
                 "No enabled alert policies.", "Alert Policies:")

\* get_service_metrics: an unknown metric_type returns after the client was
\* built and before any request.
get_service_metrics(creds, known, api) ==
    IF NoCredential(creds)
    THEN Done(0, 0, FALSE, AuthRequired)
    ELSE IF api # "ctor_raise" /\ ~known
         THEN Done(1, 0, FALSE, <<"Error: Unknown metric ">>)
         ELSE Listing(api, "Error getting service metrics: ",
                      "No data found.", "Metrics for ")

list_services(creds, api) ==
    IF NoCredential(creds)
    THEN Done(0, 0, FALSE, AuthRequired)
    ELSE Listing(api, "Error listing Cloud Run services: ",
                 "No Cloud Run services found.", "Cloud Run Services:")

list_projects(creds, api) ==
    IF NoCredential(creds)
    THEN Done(0, 0, FALSE, AuthRequired)
    ELSE Listing(api, "Error listing projects: ",
                 "No projects found.", "Projects:")

\* list_active_findings: its except clause answers a PermissionDenied with
\* its own sentence.
list_active_findings(creds, api) ==
    IF NoCredential(creds)
    THEN Done(0, 0, FALSE, AuthRequired)
    ELSE IF api = "PermissionDenied"
         THEN Done(1, 1, TRUE, <<"Unable to list findings. ">>)
         ELSE Listing(api, "Error fetching security findings: ",
                      "No active, unmuted security findings found for project ",
                      "Active Security Findings for ")

check_service_health(creds, api) ==
    IF NoCredential(creds)
    THEN Done(0, 0, FALSE, AuthRequired)
    ELSE Listing(api, "Error checking service health: ",
                 "No active service health events found for project ",
                 "Active Service Health Events for ")

\* list_recommendations: the listing of services (svc) runs in an inner try
\* whose except clause is `pass`; so does each request to a recommender (r1,
\* r2: the two recommenders of one region).  Only the construction of the
\* RecommenderClient (ctor) is left to the outer except clause.
list_recommendations(creds, svc, ctor, r1, r2) ==
    IF NoCredential(creds)
    THEN Done(0, 0, FALSE, AuthRequired)
    ELSE LET c0 == IF svc = "ctor_raise" THEN 0 ELSE 1 IN
         IF ctor = "ctor_raise"
         THEN Caught(c0, c0, "Error listing recommendations: ", ctor)
         ELSE Done(c0 + 1, c0 + 2,
                   svc \in Raises \/ r1 \in Raises \/ r2 \in Raises,
                   IF "items" \in {r1, r2}
                   THEN <<"Active Cloud Run Recommendations:">>
                   ELSE <<"No active security or identity recommendations found for Cloud Run.">>)

\* list_cost_recommendations: the same inner try around each request.
list_cost_recommendations(creds, ctor, r1, r2) ==
    IF NoCredential(creds)
    THEN Done(0, 0, FALSE, AuthRequired)
    ELSE IF ctor = "ctor_raise"
         THEN Caught(0, 0, "Error listing cost recommendations: ", ctor)
         ELSE Done(1, 2, r1 \in Raises \/ r2 \in Raises,
                   IF "items" \in {r1, r2}
                   THEN <<"Active Cost Recommendations (Total Est. Savings: ">>
                   ELSE <<"No active cost recommendations found in ">>)

\* run_connectivity_test: builds the client and the request object and
\* returns without sending it.
run_connectivity_test(creds, ctor) ==
    IF NoCredential(creds)
    THEN Done(0, 0, FALSE, AuthRequired)
    ELSE IF ctor = "ctor_raise"
         THEN Caught(0, 0, "Error running connectivity test: ", ctor)
         ELSE Done(1, 0, FALSE, <<"Not fully implemented in template.">>)

\* Characters of a project name or id, and c.isupper().
NameChars ==
    {"a", "B", " "}

IsUpper(c) ==
    c = "B"

Names ==
    UNION {[1..n -> NameChars] : n \in 0..MaxNameLen}

\* Project ids the search returns, and the pages of results.
ProjectIds ==
    {<<"p", "1">>, <<"p", "2">>}

Pages ==
    {<<>>, <<<<"p", "1">>>>, <<<<"p", "2">>, <<"p", "1">>>>}

\* A test that looks for a space only.
NeedsLookupSpaceOnly(name) ==
    Contains(name, " ")

\* Line 102: `" " in name_or_id or any(c.isupper() for c in name_or_id)`.
NeedsLookup(name) ==
    Contains(name, " ") \/ \E i \in 1..Len(name) : IsUpper(name[i])

\* resolve_project_id: the name itself when line 102 is false (nothing else
\* runs); else the credential test, the search, and the first project's id.
resolve_project_id(creds, name, api, page) ==
    IF ~NeedsLookup(name)
    THEN [Done(0, 0, FALSE, name) EXCEPT !.credCheck = FALSE]
    ELSE IF NoCredential(creds)
         THEN Done(0, 0, FALSE, AuthRequired)
         ELSE CASE api = "ctor_raise" ->
                    Caught(0, 0, "Error resolving project: ", api)
                [] api = "raise" ->
                    Caught(1, 1, "Error resolving project: ", api)
                [] OTHER ->
                    IF page = <<>>
                    THEN Done(1, 1, FALSE,
                              <<"Error: No project found with display name '">>
                                  \o name \o <<"'">>)
                    ELSE Done(1, 1, FALSE, page[1])

\* The returned string starts as one of the tools' error messages does: the
\* authentication message, an except clause's prefix, or
\* list_active_findings' sentence for a refused request.
IsErrorText(text) ==
    /\ text # <<>>
    /\ Head(text) \in {"Error: Authentication required.",
                       "Error reading logs: ",
                       "Error checking health: ",
                       "Error: Unknown metric ",
                       "Error getting service metrics: ",
                       "Error: No project found with display name '",
                       "Error resolving project: ",
                       "Error listing Cloud Run services: ",
                       "Error listing projects: ",
                       "Unable to list findings. ",
                       "Error fetching security findings: ",
                       "Error listing recommendations: ",
                       "Error listing cost recommendations: ",
                       "Error checking service health: ",
                       "Error running connectivity test: "}

\* The environment the agent runs in changes: AUTH_ID is set or unset.
SetAuthId(a) ==
    /\ authId # a
    /\ authId' = a
    /\ UNCHANGED <<projEnv, ctxState, lastCall>>
    /\ UNCHANGED notTools

\* GOOGLE_CLOUD_PROJECT is set or unset.
SetProjectEnv(b) ==
    /\ projEnv # b
    /\ projEnv' = b
    /\ UNCHANGED <<authId, ctxState, lastCall>>
    /\ UNCHANGED notTools

\* The runtime stores a value under a key of the session state.
PutState(k, v) ==
    /\ <<k, v>> \notin ctxState
    /\ ctxState' = {kv \in ctxState : kv[1] # k} \cup {<<k, v>>}
    /\ UNCHANGED <<authId, projEnv, lastCall>>
    /\ UNCHANGED notTools

\* The runtime removes a key from the session state.
DelState(k) ==
    /\ \E kv \in ctxState : kv[1] = k
    /\ ctxState' = {kv \in ctxState : kv[1] # k}
    /\ UNCHANGED <<authId, projEnv, lastCall>>
    /\ UNCHANGED notTools

\* One call of a tool: the call is recorded with what get_user_credentials
\* gave it (<<>> also when the tool did not ask) and whether
\* GOOGLE_CLOUD_PROJECT was set; no tool writes the state or the environment.
ToolCall(tool, arg, out) ==
    /\ lastCall' = [tool |-> tool, arg |-> arg, proj |-> projEnv,
                    creds |-> IF out.credCheck
                              THEN get_user_credentials(ctxState, authId)
                              ELSE <<>>,
                    out |-> out]
    /\ UNCHANGED <<authId, projEnv, ctxState>>
    /\ UNCHANGED notTools

Creds ==
    get_user_credentials(ctxState, authId)

\* The outcomes there are to choose from for a tool that tests its
\* credential first: without one it builds no client, so nothing can happen
\* to a client or a request.
ApiFor(creds) ==
    IF NoCredential(creds) THEN {"empty"} ELSE ApiOutcomes

CtorFor(creds) ==
    IF NoCredential(creds) THEN {"ok"} ELSE {"ok", "ctor_raise"}

RequestFor(creds, ctor) ==
    IF NoCredential(creds) \/ ctor = "ctor_raise" THEN {"empty"} ELSE RequestOutcomes

\* The same for resolve_project_id, which searches only when line 102 is
\* true and a credential was found, and gets a page only from a search that
\* did not raise.
SearchFor(creds, name) ==
    IF NeedsLookup(name) /\ ~NoCredential(creds) THEN SearchOutcomes ELSE {"ok"}

PagesFor(creds, name, api) ==
    IF NeedsLookup(name) /\ ~NoCredential(creds) /\ api = "ok" THEN Pages ELSE {<<>>}

GetUserCredentials ==
    ToolCall("get_user_credentials", <<>>, Done(0, 0, FALSE, <<>>))

ReadRecentLogs(api) ==
    ToolCall("read_recent_logs", <<>>, read_recent_logs(Creds, projEnv, api))

CheckHealth(api) ==
    ToolCall("check_health", <<>>, check_health(Creds, api))

GetServiceMetrics(known, api) ==
    ToolCall("get_service_metrics", <<>>, get_service_metrics(Creds, known, api))

ResolveProjectId(name, api, page) ==
    ToolCall("resolve_project_id", <<name, page>>,
             resolve_project_id(Creds, name, api, page))

ListServices(api) ==
    ToolCall("list_services", <<>>, list_services(Creds, api))

ListProjects(api) ==
    ToolCall("list_projects", <<>>, list_projects(Creds, api))

ListActiveFindings(api) ==
    ToolCall("list_active_findings", <<>>, list_active_findings(Creds, api))

ListRecommendations(svc, ctor, r1, r2) ==
    ToolCall("list_recommendations", <<>>,
             list_recommendations(Creds, svc, ctor, r1, r2))

ListCostRecommendations(ctor, r1, r2) ==
    ToolCall("list_cost_recommendations", <<>>,
             list_cost_recommendations(Creds, ctor, r1, r2))

CheckServiceHealth(api) ==
    ToolCall("check_service_health", <<>>, check_service_health(Creds, api))

RunConnectivityTest(ctor) ==
    ToolCall("run_connectivity_test", <<>>, run_connectivity_test(Creds, ctor))

\* ------------------------------------------------------------ specifications
\* Every operation on wrappers, from any thread, at any time.
Next ==
    \/ \E fk \in FactoryKinds : Construct(fk)
    \/ \E t \in Threads, p \in Proxies : QueryCheck(t, p)
    \/ \E t \in Threads, p \in Proxies : SetUpCall(t, p)
    \/ \E t \in Threads : SetUpCreate(t)
    \/ \E t \in Threads : SetUpStore(t)
    \/ \E t \in Threads : QueryReturn(t)
    \/ \E p \in Proxies : Dumps(p)
    \/ \E b \in blobs : Loads(b)

Spec ==
    Init /\ [][Next]_vars

\* A single-threaded caller: one call at a time, a call starting when no
\* other is in progress.  It uses query(); set_up() is called directly only
\* as the cold start of a wrapper nothing has been called on yet.
NextSeq ==
    \/ \E fk \in FactoryKinds : Construct(fk)
    \/ \E p \in Proxies : AllIdle /\ QueryCheck(MainThread, p)
    \/ \E p \in Proxies : AllIdle /\ calls[p] = 0 /\ SetUpCall(MainThread, p)
    \/ \E t \in Threads : SetUpCreate(t)
    \/ \E t \in Threads : SetUpStore(t)
    \/ \E t \in Threads : QueryReturn(t)
    \/ \E p \in Proxies : AllIdle /\ Dumps(p)
    \/ \E b \in blobs : Loads(b)

SpecSeq ==
    Init /\ [][NextSeq]_vars

\* Callers use query() only, from several threads whose calls overlap.
NextConc ==
    \/ \E fk \in FactoryKinds : Construct(fk)
    \/ \E t \in Threads, p \in Proxies : QueryCheck(t, p)
    \/ \E t \in Threads : SetUpCreate(t)
    \/ \E t \in Threads : SetUpStore(t)
    \/ \E t \in Threads : QueryReturn(t)
    \/ \E p \in Proxies : Dumps(p)
    \/ \E b \in blobs : Loads(b)

SpecConc ==
    Init /\ [][NextConc]_vars

\* The deployment flow of test_pickle2.py and test_pickle_repro.py: the
\* module-level app is imported and pickled on the local side; the restored
\* copy alone is set up (once, on cold start) and then queried by the threads
\* of the receiving side.
NextDeploy ==
    \/ \E fk \in FactoryKinds : Construct(fk)
    \/ \E p \in Proxies : host[p] = "local" /\ Dumps(p)
    \/ \E b \in blobs : Loads(b)
    \/ \E p \in Proxies :
        host[p] = "remote" /\ AllIdle /\ calls[p] = 0 /\ SetUpCall(MainThread, p)
    \/ \E t \in Threads, p \in Proxies : host[p] = "remote" /\ QueryCheck(t, p)
    \/ \E t \in Threads : SetUpCreate(t)
    \/ \E t \in Threads : SetUpStore(t)
    \/ \E t \in Threads : QueryReturn(t)

SpecDeploy ==
    Init /\ [][NextDeploy]_vars

\* The script of test_mcp_factory.py: factory functions and their products
\* are called and pickled, the file the product opens coming and going.
NextFactory ==
    \/ \E b \in BOOLEAN : SetFile(b)
    \/ \E fk \in FactoryKinds : CallFactory(fk)
    \/ \E fk \in FactoryKinds : DumpsFactory(fk)
    \/ \E fk \in FactoryKinds : LoadsFactory(fk)
    \/ \E fk \in FactoryKinds : CallRestored(fk)
    \/ \E r \in fnProducts : DumpsProduct(r)

SpecFactory ==
    Init /\ [][NextFactory]_vars

\* deploy_re.py run in the gcp_health_agent directory, with its agent.py
\* and whatever .env file was written there.
NextEnv ==
    \/ CreateEnvFile
    \/ \E l \in EnvLines : WriteLine(l)
    \/ \E m \in RepoModules : ImportAgent(m)
    \/ ParseEnv
    \/ CreateEngine

SpecEnv ==
    Init /\ [][NextEnv]_vars

\* deploy_re.py run next to any agent.py, without a .env file.
NextWrap ==
    \/ \E m \in Modules : ImportAgent(m)
    \/ ParseEnv
    \/ CreateEngine

SpecWrap ==
    Init /\ [][NextWrap]_vars

\* The agent at work: the runtime changes the session state and the
\* environment, and the model calls the tools in any order.
NextTools ==
    \/ \E a \in {<<>>} \cup {<<v>> : v \in AuthIds} : SetAuthId(a)
    \/ \E b \in BOOLEAN : SetProjectEnv(b)
    \/ \E k \in StateKeys, v \in StateValues : PutState(k, v)
    \/ \E k \in StateKeys : DelState(k)
    \/ GetUserCredentials
    \/ \E api \in ApiOutcomes : ReadRecentLogs(api)
    \/ \E api \in ApiFor(Creds) : CheckHealth(api)
    \/ \E known \in BOOLEAN : \E api \in ApiFor(Creds) : GetServiceMetrics(known, api)
    \/ \E name \in Names : \E api \in SearchFor(Creds, name) :
            \E page \in PagesFor(Creds, name, api) : ResolveProjectId(name, api, page)
    \/ \E api \in ApiFor(Creds) : ListServices(api)
    \/ \E api \in ApiFor(Creds) : ListProjects(api)
    \/ \E api \in ApiFor(Creds) : ListActiveFindings(api)
    \/ \E svc \in RequestFor(Creds, "ok") \cup {"ctor_raise"} : \E ctor \in CtorFor(Creds) :
            \E r1 \in RequestFor(Creds, ctor), r2 \in RequestFor(Creds, ctor) :
                ListRecommendations(svc, ctor, r1, r2)
    \/ \E ctor \in CtorFor(Creds) :
            \E r1 \in RequestFor(Creds, ctor), r2 \in RequestFor(Creds, ctor) :
                ListCostRecommendations(ctor, r1, r2)
    \/ \E api \in ApiFor(Creds) : CheckServiceHealth(api)
    \/ \E ctor \in CtorFor(Creds) : RunConnectivityTest(ctor)

SpecTools ==
    Init /\ [][NextTools]_vars

\* ------------------------------------------------------------------ claims
\* No call is in progress on wrapper p.
NoCallOn(p) ==
    \A t \in Threads : target[t] # p

\* C1: on a wrapper built by the constructor whose factory has not raised,
\* once a query() has returned under one-at-a-time calls, create_agent() has
\* been invoked exactly once, set_up() has stored exactly once, and every
\* query() that returned saw that one stored object, which is still the one
\* installed.
C1_SequentialAccessBuildsOnce ==
    \A p \in Proxies :
        (alive[p] /\ origin[p] = "init" /\ fails[p] = 0 /\ observed[p] # {}) =>
            /\ calls[p] = 1
            /\ installs[p] = 1
            /\ observed[p] = {winner[p]}
            /\ lazy_agent[p].id = winner[p]
            /\ lazy_agent[p].via = "factory"

\* A later query() on such a wrapper is about to return without having
\* invoked the factory, an earlier one having returned already.
C1_Witness ==
    \E t \in Threads :
        /\ pc[t] = "ret"
        /\ invoked[t] = 0
        /\ origin[target[t]] = "init"
        /\ fails[target[t]] = 0
        /\ calls[target[t]] = 1
        /\ observed[target[t]] = {winner[target[t]]}

\* C2: when query() calls overlap on a wrapper built by the constructor whose
\* factory does not raise, create_agent() is invoked at most once and all
\* callers see one and the same object.
C2_ConcurrentAccessBuildsOnce ==
    \A p \in Proxies :
        (alive[p] /\ origin[p] = "init" /\ fails[p] = 0) =>
            /\ calls[p] <= 1
            /\ Cardinality(observed[p]) <= 1

\* C3: under one-at-a-time calls, the step in which create_agent() raises is
\* the only factory invocation of its call, ends the call and leaves
\* _lazy_agent None; and the next query() on a wrapper whose latest call
\* ended that way goes into set_up() again.
C3_RaiseLeavesAbsentAndNextAccessRetries ==
    /\ [][\A t \in Threads :
            (pc[t] = "setup" /\ fails'[target[t]] = fails[target[t]] + 1) =>
                /\ invoked[t] = 0
                /\ calls'[target[t]] = calls[target[t]] + 1
                /\ pc'[t] = "idle"
                /\ lazy_agent'[target[t]] = None
                /\ installs'[target[t]] = installs[target[t]]]_vars
    /\ [][\A t \in Threads :
            (/\ pc[t] = "idle"
             /\ pc'[t] # "idle"
             /\ viaQuery'[t]
             /\ lastErr[target'[t]] = FactoryError) => pc'[t] = "setup"]_vars

\* The query() after one that the factory failed has invoked the factory
\* again and holds its product.
C3_Witness ==
    \E t \in Threads :
        /\ pc[t] = "store"
        /\ viaQuery[t]
        /\ invoked[t] = 1
        /\ lastErr[target[t]] = FactoryError
        /\ fails[target[t]] = 1
        /\ calls[target[t]] = 2

\* C4: under one-at-a-time calls, a wrapper restored from a pickle taken
\* while _lazy_agent was None has, once a call on it succeeded, exactly one
\* object built by create_agent() and stored, however many query() calls
\* followed; with no factory failure that is exactly one factory invocation.
C4_RestoredCopyBuildsOnce ==
    \A p \in Proxies :
        (alive[p] /\ origin[p] = "loadsAbsent" /\ (observed[p] # {} \/ installs[p] > 0)) =>
            /\ calls[p] = fails[p] + 1
            /\ installs[p] = 1
            /\ observed[p] \subseteq {winner[p]}
            /\ lazy_agent[p].id = winner[p]

\* A further query() on the restored copy is about to return without a
\* factory invocation, after an earlier one returned.
C4_Witness ==
    \E t \in Threads :
        /\ pc[t] = "ret"
        /\ invoked[t] = 0
        /\ origin[target[t]] = "loadsAbsent"
        /\ host[target[t]] = "remote"
        /\ calls[target[t]] = 1
        /\ observed[target[t]] # {}

\* C5: under every interleaving of construction, set_up(), query() and
\* transport, a wrapper that was not restored with a resource in it holds
\* either None or a product of create_agent(), and set_up() has stored into
\* it exactly once: no second resource was installed over the first.
C5_ResourceFromOneInvocation ==
    \A p \in Proxies :
        (alive[p] /\ origin[p] # "loadsPresent" /\ lazy_agent[p] # None) =>
            /\ lazy_agent[p].via = "factory"
            /\ installs[p] = 1

C8_CallersReceiveWinnersInstance ==
    \A p \in Proxies :
        (alive[p] /\ origin[p] # "loadsPresent") =>
            \A i \in observed[p] : winner[p] # 0 /\ i = winner[p]

\* C9: in the deployment flow every pickle was taken of a wrapper whose
\* _lazy_agent was None, no dumps() failed, and no wrapper on the local side
\* has had set_up() or query() reach the factory.
C9_SerializedWhileAbsent ==
    /\ \A b \in blobs : b.lazy_agent = "None"
    /\ lastDump.result # PickleError
    /\ \A p \in Proxies :
        (alive[p] /\ host[p] = "local") =>
            /\ lazy_agent[p] = None
            /\ calls[p] = 0
            /\ NoCallOn(p)

\* The flow has run to its end: a pickle was taken, restored, and the
\* restored copy set up.
C9_Witness ==
    /\ blobs # {}
    /\ lastDump.result = "ok"
    /\ \E p \in Proxies :
        /\ alive[p]
        /\ host[p] = "remote"
        /\ origin[p] = "loadsAbsent"
        /\ lazy_agent[p].via = "factory"

\* C10: SyncAgentWrapper() yields a wrapper whose _lazy_agent is None, and
\* the constructor neither invokes create_agent() nor allocates or stores an
\* agent.
C10_ConstructedAbsent ==
    [][\A p \in Proxies :
            (~alive[p] /\ alive'[p] /\ host'[p] = "local") =>
                /\ lazy_agent'[p] = None
                /\ origin'[p] = "init"
                /\ calls' = calls
                /\ installs' = installs
                /\ nextId' = nextId]_vars

\* A wrapper has just been constructed: nothing was called on it.
C10_Witness ==
    \E p \in Proxies :
        /\ alive[p]
        /\ origin[p] = "init"
        /\ host[p] = "local"
        /\ lazy_agent[p] = None
        /\ calls[p] = 0
        /\ NoCallOn(p)


\* C11: a dumps() of a wrapper whose _lazy_agent is None succeeds, adds a
\* pickle that records None, and changes neither the wrapper, the factory
\* counts nor the object allocator; and each wrapper loads() builds from such
\* a pickle starts with _lazy_agent None and no factory call, the wrappers
\* that exist already being left as they are.
C11_AbsentTransportHasNoEffect ==
    /\ [][\A p \in Proxies :
            (/\ alive[p]
             /\ lazy_agent[p] = None
             /\ (lastDump' # lastDump \/ blobs' # blobs)
             /\ lastDump'.proxy = p) =>
                /\ lastDump'.result = "ok"
                /\ blobs' = blobs \cup {Encode(p)}
                /\ Encode(p).lazy_agent = "None"
                /\ proxyVars' = proxyVars
                /\ historyVars' = historyVars
                /\ nextId' = nextId]_vars
    /\ [][\A p \in Proxies :
            (~alive[p] /\ alive'[p] /\ origin'[p] = "loadsAbsent") =>
                /\ lazy_agent'[p] = None
                /\ historyVars' = historyVars
                /\ nextId' = nextId
                /\ blobs' = blobs
                /\ \A q \in Proxies : alive[q] => lazy_agent'[q] = lazy_agent[q]]_vars

\* A wrapper was pickled while absent and restored, the restored copy was
\* itself pickled again, and all of them are still absent with no factory
\* call made.
C11_Witness ==
    \E p, q \in Proxies :
        /\ alive[p] /\ origin[p] = "init" /\ lazy_agent[p] = None /\ calls[p] = 0
        /\ alive[q] /\ origin[q] = "loadsAbsent" /\ lazy_agent[q] = None /\ calls[q] = 0
        /\ lastDump = [proxy |-> q, result |-> "ok"]
        /\ nextId = 1


\* The values the returned query() calls on wrapper p worked with, when
\* create_agent() returns the number of objects it has returned so far.
Yielded(p) ==
    {ordinal[i] : i \in observed[p] \ {0}}

C12_FactoryFunctionIsTransportable ==
    /\ [][(lastFn'.op = "dumps" /\ (lastFn' # lastFn \/ fnBlobs' # fnBlobs)) =>
            /\ lastFn'.result = "ok"
            /\ fnBlobs' = fnBlobs \cup {lastFn'.fn}
            /\ fnProducts' = fnProducts]_vars
    /\ [][(lastFn'.op = "callRestored" /\ (lastFn' # lastFn \/ fnProducts' # fnProducts)) =>
            /\ lastFn'.fn \in fnBlobs
            /\ IF lastFn'.fn = "handle" /\ ~fileExists
               THEN /\ lastFn'.result = FactoryError
                    /\ fnProducts' = fnProducts
               ELSE /\ lastFn'.result = "ok"
                    /\ \E r \in fnProducts' :
                        /\ r \notin fnProducts
                        /\ fnProducts' = fnProducts \cup {r}
                        /\ r.kind = lastFn'.fn
                        /\ r.via = "callRestored"]_vars

\* The file-opening factory function was pickled and restored, the restored
\* function has returned the first object made, and pickling that object
\* has failed.
C12_Witness ==
    /\ "handle" \in fnRestored
    /\ \E r \in fnProducts : r.kind = "handle" /\ r.via = "callRestored" /\ r.id = 1
    /\ lastFn = [op |-> "dumpsProduct", fn |-> "handle", result |-> PickleError]


\* C14: the env_vars list ReasoningEngine.create receives never holds a name
\* twice, whatever the .env file held and however parsing it ended.
C14_EnvVarsUnique ==
    created # <<>> =>
        \A i, j \in 1..Len(created[1].env_vars) :
            created[1].env_vars[i] = created[1].env_vars[j] => i = j


\* C15: once deploy_re.py has parsed .env, for every well-formed KEY=VALUE
\* line with a non-empty key os.environ[KEY] is the value of the last such
\* line for KEY, stripped and with one layer of matching surrounding quotes
\* removed (a quote at both ends of a value of two or more characters),
\* reserved keys included; and env_vars holds exactly the keys of these
\* lines that are not reserved.
C15_EnvironAndEnvVarsFollowFile ==
    (pcD \in {"parsed", "created"} /\ envExists) =>
        LET wf == {i \in 1..Len(envFile) : WellFormed(envFile[i])}
            Unquoted(v) ==
                IF Len(v) >= 2 /\ v[1] = v[Len(v)] /\ v[1] \in {DQ, SQ}
                THEN SubSeq(v, 2, Len(v) - 1)
                ELSE v
        IN /\ \A i \in wf :
                (\A j \in wf : j > i => KeyOf(envFile[j]) # KeyOf(envFile[i])) =>
                    <<KeyOf(envFile[i]), Unquoted(Strip(SplitValue(Strip(envFile[i]))))>>
                        \in environ
           /\ Range(env_vars) = {KeyOf(envFile[i]) : i \in {k \in wf : ~Reserved(KeyOf(envFile[k]))}}


\* C16: the object ReasoningEngine.create receives is the imported object
\* itself (agent.app when the module defines app, else agent.root_agent)
\* whenever that object has an attribute agent or _agent or its class is
\* named AdkApp; otherwise it is one new AdkApp whose agent is the imported
\* object; the object a new AdkApp is put around is never an AdkApp.
C16_NeverDoubleWraps ==
    created # <<>> =>
        LET m == agentModule[1]
            o == app_obj[1]
            d == created[1].app
        IN /\ o = IF "app" \in m.names THEN m.app ELSE m.root_agent
           /\ IF "agent" \in o.attrs \/ "_agent" \in o.attrs \/ o.cls = "AdkApp"
              THEN d = o
              ELSE /\ d.cls = "AdkApp"
                   /\ d.inner = <<o>>
                   /\ o.cls # "AdkApp"
                   /\ o.inner = <<>>

\* The module's app is an AdkApp that shows neither attribute, and create
\* has received that very object.
C16_Witness ==
    /\ created # <<>>
    /\ "app" \in agentModule[1].names
    /\ app_obj[1].cls = "AdkApp"
    /\ app_obj[1].attrs = {}
    /\ created[1].app = agentModule[1].app


\* The statement as given for C17: a tool call made while the context gave
\* no access token builds no API client and sends no request.
C17_Original ==
    (lastCall.tool # "none" /\ lastCall.creds = <<>>) =>
        /\ lastCall.out.clients = 0
        /\ lastCall.out.requests = 0

\* C17: every tool other than read_recent_logs, called while the context
\* gives no access token, builds no API client and sends no request, and
\* when it asked for the credential it returns the authentication message;
\* read_recent_logs has no such test and builds its client with
\* credentials=None, staying away from the API only when
\* GOOGLE_CLOUD_PROJECT is unset; and a tool that did build a client or send
\* a request either had a token or was read_recent_logs.
C17_NoTokenNoContactButLogs ==
    /\ (lastCall.tool \notin {"none", "read_recent_logs"} /\ lastCall.creds = <<>>) =>
            /\ lastCall.out.clients = 0
            /\ lastCall.out.requests = 0
            /\ lastCall.out.credCheck /\ lastCall.tool # "get_user_credentials"
                    => lastCall.out.text = AuthRequired
    /\ (lastCall.tool = "read_recent_logs" /\ lastCall.creds = <<>>) =>
            /\ lastCall.out.clients > 0 => lastCall.proj
            /\ ~lastCall.proj => lastCall.out.requests = 0
    /\ (lastCall.out.clients > 0 \/ lastCall.out.requests > 0) =>
            (lastCall.creds # <<>> \/ lastCall.tool = "read_recent_logs")

\* check_health was called while the session state was not empty but held no
\* token under the key AUTH_ID names, and returned the authentication
\* message without building a client.
C17_Witness ==
    /\ lastCall.tool = "check_health"
    /\ lastCall.creds = <<>>
    /\ ctxState # {}
    /\ get_user_credentials(ctxState, authId) = <<>>
    /\ lastCall.out.text = AuthRequired
    /\ lastCall.out.clients = 0

\* C18: a call of get_user_credentials returns Credentials carrying the
\* value the state holds under the key AUTH_ID names ("temp_oauth" when the
\* variable is unset) exactly when the state is not empty, that key is not
\* the empty string, and the value is truthy; it returns None otherwise; and
\* it changes neither the state nor the environment.
C18_CredentialsExactlyWhenTokenUnderKey ==
    [][(lastCall' # lastCall /\ lastCall'.tool = "get_user_credentials") =>
        LET key == IF authId = <<>> THEN "temp_oauth" ELSE authId[1]
            held == {kv \in ctxState : kv[1] = key /\ kv[2] # ""}
        IN /\ ctxState' = ctxState
           /\ authId' = authId
           /\ IF key # "" /\ ctxState # {} /\ held # {}
              THEN \E kv \in held : lastCall'.creds = <<kv[2]>>
              ELSE lastCall'.creds = <<>>]_vars

\* AUTH_ID names my_auth, the state holds a token under it and an empty
\* value under the default key, and get_user_credentials returned that
\* token.
C18_Witness ==
    /\ lastCall.tool = "get_user_credentials"
    /\ lastCall.creds = <<"token">>
    /\ authId = <<"my_auth">>
    /\ ctxState = {<<"my_auth", "token">>, <<"temp_oauth", "">>}

\* The statement as given for C19: no tool call lets an exception out, and a
\* call inside which one was raised returns an error message.
C19_Original ==
    lastCall.tool # "none" =>
        /\ ~lastCall.out.raised
        /\ lastCall.out.exc => IsErrorText(lastCall.out.text)

\* C19: no tool call lets an exception out, each returning a string; a call
\* inside which an exception was raised returns an error message, except
\* that list_recommendations and list_cost_recommendations drop the
\* exceptions of their inner try blocks and then return their ordinary
\* result, the no-recommendations sentence included.
C19_StringReturnedErrorsCaughtOrDropped ==
    lastCall.tool # "none" =>
        /\ ~lastCall.out.raised
        /\ (lastCall.out.exc /\ ~IsErrorText(lastCall.out.text)) =>
            \/ /\ lastCall.tool = "list_recommendations"
               /\ lastCall.out.text \in
                    {<<"Active Cloud Run Recommendations:">>,
                     <<"No active security or identity recommendations found for Cloud Run.">>}
            \/ /\ lastCall.tool = "list_cost_recommendations"
               /\ lastCall.out.text \in
                    {<<"Active Cost Recommendations (Total Est. Savings: ">>,
                     <<"No active cost recommendations found in ">>}
        /\ (lastCall.tool \notin {"list_recommendations", "list_cost_recommendations"}
                /\ lastCall.out.exc) => IsErrorText(lastCall.out.text)

\* list_active_findings had a token, its request was refused, and it
\* returned its sentence for that instead of raising.
C19_Witness ==
    /\ lastCall.tool = "list_active_findings"
    /\ lastCall.creds # <<>>
    /\ lastCall.out.exc
    /\ ~lastCall.out.raised
    /\ lastCall.out.text = <<"Unable to list findings. ">>

\* C20: resolve_project_id returns the name it was given, without asking for
\* the credential and without client or request, exactly when the name has
\* no space and no uppercase character; for any other name it returns the
\* authentication message when no credential is found, the project_id of the
\* first project of the page when the search yields one, and an error
\* message when the search yields none or raises.
C20_ResolveReturnsInputExactlyWhenPlain ==
    lastCall.tool = "resolve_project_id" =>
        LET name == lastCall.arg[1]
            page == lastCall.arg[2]
            o == lastCall.out
            plain == \A i \in 1..Len(name) : name[i] # " " /\ ~IsUpper(name[i])
        IN /\ plain <=> (~o.credCheck /\ o.clients = 0 /\ o.requests = 0 /\ o.text = name)
           /\ ~plain =>
                IF lastCall.creds = <<>>
                THEN o.text = AuthRequired /\ o.clients = 0 /\ o.requests = 0
                ELSE IF o.exc \/ page = <<>>
                     THEN IsErrorText(o.text) /\ o.text # AuthRequired
                     ELSE o.text = page[1]

\* A name with an uppercase character was resolved with a token, the search
\* yielded two projects, and the id of the first was returned.
C20_Witness ==
    /\ lastCall.tool = "resolve_project_id"
    /\ \E i \in 1..Len(lastCall.arg[1]) : IsUpper(lastCall.arg[1][i])
    /\ ~Contains(lastCall.arg[1], " ")
    /\ lastCall.creds = <<"token">>
    /\ Len(lastCall.arg[2]) = 2
    /\ lastCall.out.text = lastCall.arg[2][1]

====
